---- MODULE Spec2Model ----
(***************************************************************************)
(* Verification model of the data platform (src/5.py): the parquet cache   *)
(* behind "select dataset" / "upload dataset", the column normalizer run   *)
(* on a cache miss, generate_graph (1D, 2D normal, 2D comparison, 3D), the *)
(* domain resolvers and run_prediction; and of the offline training of the *)
(* failure model (src/train_models.py).                                    *)
(*                                                                         *)
(* File names and cache file names are sequences of tokens (a token is a   *)
(* run of characters), so that secure_filename, the f-string that builds   *)
(* the cache file name and the glob of the stale sweep are computed on     *)
(* text, as the code computes them.                                        *)
(***************************************************************************)
EXTENDS Integers, Sequences, FiniteSets, TLC

VARIABLES
    files,          \* DATA_FOLDER: file name -> [exists, content, mtime]
    cache,          \* CACHE_FOLDER: cache file name -> [table, complete, writer]
    storedData,     \* dcc.Store 'stored-data' of each session
    storedFilename, \* dcc.Store 'stored-filename' of each session
    tempUpload,     \* dcc.Store 'temp-uploaded-file-store' of each session
    last,           \* what the most recent callback did (observation record)
    pc,             \* position of each session's running callback
    pend,           \* locals of each session's running callback
    seen,           \* what each session's last look at a cache path found
    normIn,         \* normalizer under test: the raw column
    normOut,        \* normalizer under test: the column after the loop body
    aggIn,          \* aggregation under test: table column and query
    aggOut,         \* aggregation under test: outcome of generate_graph
    domIn,          \* domain resolver under test: table and chosen column(s)
    domOut,         \* domain resolver under test: the returned options
    predIn,         \* prediction under test: table, model, selections, clock
    predOut,        \* prediction under test: outcome of run_prediction
    trainIn,        \* training under test: rows of the failure history
    trainOut        \* training under test: the saved mapping

vars == <<files, cache, storedData, storedFilename, tempUpload, last,
          pc, pend, seen, normIn, normOut, aggIn, aggOut,
          domIn, domOut, predIn, predOut, trainIn, trainOut>>

cacheVars == <<files, cache, storedData, storedFilename, tempUpload, last>>
concVars == <<pc, pend, seen>>
normVars == <<normIn, normOut>>
aggVars == <<aggIn, aggOut>>
pureVars == <<domIn, domOut, predIn, predOut, trainIn, trainOut>>

-----------------------------------------------------------------------------
(* Bounds *)

MaxTick == 2        \* modification times run over 0..MaxTick (clock ticks)
MaxRows == 4        \* rows of a column handed to the normalizer
MaxRows1D == 4      \* rows of the column handed to the 1D aggregation
MaxRows2D == 2      \* rows of the table handed to generate_graph as a whole
MaxRowsDom == 4     \* rows of the table handed to the domain resolvers
MaxRowsPred == 2    \* rows of the table handed to run_prediction
MaxNow == 4         \* the clock of run_prediction runs over 0..MaxNow half-days
MaxRowsTrain == 3   \* rows of the failure history handed to the training

(* st_mtime is a float number of seconds; a tick is half a second. *)
TicksPerSec == 2

(* a timestamp of the prediction table is a number of half-days *)
StampsPerDay == 2

Ticks == 0..MaxTick
\* browser sessions that may run callbacks in parallel
Sessions == {1, 2}

-----------------------------------------------------------------------------
(* Cells, columns, tables *)

Null == [t |-> "null", v |-> <<>>]
Text(toks) == [t |-> "str", v |-> toks]
Date(tok) == [t |-> "date", v |-> <<tok>>]

\* text tokens that pd.to_datetime parses
DateTokens == {"2024-01-05", "2024-03-09"}

IsStr(c) == c.t = "str"
IsNull(c) == c.t = "null"

RECURSIVE LStrip(_)
LStrip(s) == IF s # <<>> /\ Head(s) = " " THEN LStrip(Tail(s)) ELSE s

RECURSIVE RStrip(_)
RStrip(s) ==
    IF s # <<>> /\ s[Len(s)] = " " THEN RStrip(SubSeq(s, 1, Len(s) - 1)) ELSE s

\* str.strip()
Strip(s) == RStrip(LStrip(s))

\* lambda x: x.strip() if isinstance(x, str) else x
StripCell(c) == IF IsStr(c) THEN Text(Strip(c.v)) ELSE c

\* pd.to_datetime(value, errors='coerce') on one cell: NaT when it fails
ToDatetime(c) ==
    IF IsStr(c) /\ Len(c.v) = 1 /\ c.v[1] \in DateTokens THEN Date(c.v[1])
    ELSE IF c.t = "date" THEN c
    ELSE Null

\* Series.dtype == 'object': the column holds strings
IsObjectColumn(col) == \E i \in 1..Len(col) : IsStr(col[i])

NotNaCount(col) == Cardinality({i \in 1..Len(col) : ~IsNull(col[i])})

\* not converted_col.isnull().all() and
\* (converted_col.notna().sum() / len(df_to_process) > 0.5)
AcceptDates(converted, nrows) ==
    /\ NotNaCount(converted) > 0
    /\ 2 * NotNaCount(converted) > nrows

\* body of "for col in df_to_process.columns" for one column
NormalizeColumn(col) ==
    IF ~IsObjectColumn(col) THEN col
    ELSE LET converted == [i \in 1..Len(col) |-> ToDatetime(col[i])]
             kept == IF AcceptDates(converted, Len(col)) THEN converted ELSE col
         IN  [i \in 1..Len(col) |-> StripCell(kept[i])]

\* a table is a record of equally long columns
NormalizeTable(t) == [c \in DOMAIN t |-> NormalizeColumn(t[c])]

-----------------------------------------------------------------------------
(* Data files *)

\* file names of the model
NameY == <<"d", "_", "1", ".csv">>                       \* d_1.csv
NameZ == <<"d", "_", "1", ".csv", "_", "v2", ".csv">>    \* d_1.csv_v2.csv
NameX == <<"d", " ", "1", ".csv">>                       \* "d 1.csv"
NameT == <<"d", ".txt">>                                 \* d.txt

NoName == <<>>

\* byte contents of the model
Contents == {"csvA", "csvB", "garbage"}

\* what a parser makes of well-formed bytes
RawTable(content) ==
    IF content = "csvA"
    THEN [when |-> <<Text(<<"2024-01-05">>), Text(<<"2024-03-09">>)>>,
          part |-> <<Text(<<" ", "p1">>), Text(<<"p2", " ">>)>>]
    ELSE [when |-> <<Text(<<"2024-03-09">>), Null>>,
          part |-> <<Text(<<"p2">>), Text(<<"p2">>)>>]

NoTable == [none |-> <<>>]

\* filename.lower().endswith('.csv' / ('.xlsx', '.xls'))
HasTableExt(name) == name # <<>> /\ name[Len(name)] \in {".csv", ".xlsx", ".xls"}

\* read_file: None for an unsupported extension or when the parser raises
ReadFile(content, name) ==
    IF HasTableExt(name) /\ content # "garbage" THEN RawTable(content)
    ELSE NoTable

\* werkzeug secure_filename: whitespace becomes an underscore
SecureFilename(name) ==
    [i \in 1..Len(name) |-> IF name[i] = " " THEN "_" ELSE name[i]]

NoFile == [exists |-> FALSE, content |-> "garbage", mtime |-> 0]

\* list_excel_files(): names offered by the select-dataset dropdown
ListExcelFiles(fs) == {n \in DOMAIN fs : fs[n].exists /\ HasTableExt(n)}

-----------------------------------------------------------------------------
(* Cache file names *)

\* int(source_path.stat().st_mtime)
IntMtime(mtime) == mtime \div TicksPerSec

\* f"select_{s_filename}_{mtime}.parquet"
SelectCacheName(sname, sec) ==
    <<"select", "_">> \o sname \o <<"_", ToString(sec), ".parquet">>

\* hashlib.sha256(decoded_bytes).hexdigest()[:16]
ContentHash(content) ==
    CASE content = "csvA" -> "3f1a"
      [] content = "csvB" -> "9c0e"
      [] OTHER -> "b772"

\* f"upload_{s_filename_cache}_{content_hash[:16]}.parquet"
UploadCacheName(sname, content) ==
    <<"upload", "_">> \o sname \o <<"_", ContentHash(content), ".parquet">>

IsPrefix(p, s) == Len(p) <= Len(s) /\ SubSeq(s, 1, Len(p)) = p

NoSweep(sname, store) == {}

\* glob.glob(str(CACHE_FOLDER / f"select_{s_filename}_*.parquet"))
GlobSelect(sname, store) ==
    {k \in DOMAIN store :
        /\ IsPrefix(<<"select", "_">> \o sname \o <<"_">>, k)
        /\ Len(k) >= Len(sname) + 4
        /\ k[Len(k)] = ".parquet"}

\* the cache folder without the given files (os.remove of each)
RemoveAll(store, ks) == [k \in (DOMAIN store) \ ks |-> store[k]]

\* df.to_parquet(path) run to completion
Publish(store, key, table) ==
    [k \in (DOMAIN store) \cup {key} |->
        IF k = key THEN [table |-> table, complete |-> TRUE, writer |-> 0]
        ELSE store[k]]

CacheNeverExists(store, key) == FALSE

\* cache_filepath.exists()
CacheExists(store, key) == key \in DOMAIN store

EmptyStore == [k \in {} |-> [table |-> NoTable, complete |-> TRUE, writer |-> 0]]

-----------------------------------------------------------------------------
(* Callback observation record *)

NoTemp == [name |-> NoName, content |-> "garbage"]
NoPath == <<>>

\* what one callback run did: the cache file name it derived, whether a file
\* was there, which helpers it called, what it wrote and removed, what it
\* returned ("loaded": the outputs carrying the cache path; "raised": an
\* exception left the callback and no output was updated), and "after": the
\* file and cache path of the entry that the immediately preceding callback
\* built, when that callback was a select
NoOp ==
    [op |-> "none", name |-> NoName, key |-> NoPath, existed |-> FALSE,
     readCalled |-> FALSE, readOk |-> FALSE, normCalled |-> FALSE,
     wrote |-> FALSE, removed |-> {}, outcome |-> "none",
     after |-> [name |-> NoName, key |-> NoPath]]

NoBuild == [name |-> NoName, key |-> NoPath]
BuiltBy(l) ==
    IF l.op = "select" /\ l.wrote THEN [name |-> l.name, key |-> l.key]
    ELSE NoBuild

\* outcomes of df.to_parquet: it returns, or it raises and leaves no file
WriteOutcomes == {"ok", "raise"}

-----------------------------------------------------------------------------
(* handle_file_selection_or_upload, branch triggered_id == 'select-dataset' *)

\* the branch as a function of the data folder and the cache folder
SelectRun(fs, store, f, wr) ==
    LET mtime == IntMtime(fs[f].mtime)
        sname == SecureFilename(f)
        key   == SelectCacheName(sname, mtime)
        hit   == CacheExists(store, key)
        stale == GlobSelect(sname, store)
        swept == RemoveAll(store, stale)
        raw   == ReadFile(fs[f].content, f)
        ok    == raw # NoTable
    IN  IF hit
        THEN [store |-> store, key |-> key, existed |-> TRUE,
              readCalled |-> FALSE, readOk |-> FALSE, normCalled |-> FALSE,
              wrote |-> FALSE, removed |-> {}, outcome |-> "loaded"]
        ELSE IF ~ok
        THEN [store |-> swept, key |-> key, existed |-> FALSE,
              readCalled |-> TRUE, readOk |-> FALSE, normCalled |-> FALSE,
              wrote |-> FALSE, removed |-> stale, outcome |-> "loaded"]
        ELSE IF wr = "ok"
        THEN [store |-> Publish(swept, key, NormalizeTable(raw)), key |-> key,
              existed |-> FALSE, readCalled |-> TRUE, readOk |-> TRUE,
              normCalled |-> TRUE, wrote |-> TRUE, removed |-> stale,
              outcome |-> "loaded"]
        ELSE [store |-> swept, key |-> key, existed |-> FALSE,
              readCalled |-> TRUE, readOk |-> TRUE, normCalled |-> TRUE,
              wrote |-> FALSE, removed |-> stale, outcome |-> "raised"]

Select(s, f, wr) ==
    /\ f \in ListExcelFiles(files)
    /\ LET r == SelectRun(files, cache, f, wr)
       IN  /\ cache' = r.store
           /\ last' = [op |-> "select", name |-> f, key |-> r.key,
                       existed |-> r.existed, readCalled |-> r.readCalled,
                       readOk |-> r.readOk, normCalled |-> r.normCalled,
                       wrote |-> r.wrote, removed |-> r.removed,
                       outcome |-> r.outcome, after |-> BuiltBy(last)]
           /\ IF r.outcome = "loaded"
              THEN /\ storedData' = [storedData EXCEPT ![s] = r.key]
                   /\ storedFilename' = [storedFilename EXCEPT ![s] = f]
                   /\ tempUpload' = [tempUpload EXCEPT ![s] = NoTemp]
              ELSE UNCHANGED <<storedData, storedFilename, tempUpload>>
    /\ UNCHANGED <<files, concVars, normVars, aggVars, pureVars>>

(* handle_file_selection_or_upload, branch triggered_id == 'upload-data' *)
Upload(s, name, content) ==
    /\ name # NoName
    /\ tempUpload' = [tempUpload EXCEPT ![s] = [name |-> name, content |-> content]]
    /\ last' = [NoOp EXCEPT !.op = "upload", !.name = name]
    /\ UNCHANGED <<files, cache, storedData, storedFilename,
                   concVars, normVars, aggVars, pureVars>>

-----------------------------------------------------------------------------
(* handle_save_file_confirmation *)

\* with open(save_path, 'wb') as f: f.write(decoded_bytes)
SaveFile(fs, name, content, tick) ==
    [fs EXCEPT ![SecureFilename(name)] =
        [exists |-> TRUE, content |-> content, mtime |-> tick]]

\* a write at a later instant than the file's present modification time
LaterTick(fs, n, tick) == fs[n].exists => tick > fs[n].mtime

\* the cache part of the callback, lines 409-427
ConfirmRun(store, name, content, wr) ==
    LET key == UploadCacheName(SecureFilename(name), content)
        raw == ReadFile(content, name)
        ok  == raw # NoTable
    IN  IF ~ok
        THEN [store |-> store, key |-> key, existed |-> CacheExists(store, key),
              readCalled |-> TRUE, readOk |-> FALSE, normCalled |-> FALSE,
              wrote |-> FALSE, outcome |-> "loaded"]
        ELSE IF wr = "ok"
        THEN [store |-> Publish(store, key, NormalizeTable(raw)), key |-> key,
              existed |-> CacheExists(store, key), readCalled |-> TRUE,
              readOk |-> TRUE, normCalled |-> TRUE, wrote |-> TRUE,
              outcome |-> "loaded"]
        ELSE [store |-> store, key |-> key, existed |-> CacheExists(store, key),
              readCalled |-> TRUE, readOk |-> TRUE, normCalled |-> TRUE,
              wrote |-> FALSE, outcome |-> "raised"]

\* tick is the instant of the write to the data folder; it is read only when
\* save_choice is 'yes'
Confirm(s, choice, tick, wr) ==
    /\ tempUpload[s] # NoTemp
    /\ LET name == tempUpload[s].name
           content == tempUpload[s].content
           r == ConfirmRun(cache, name, content, wr)
       IN  /\ IF choice = "yes"
              THEN /\ LaterTick(files, SecureFilename(name), tick)
                   /\ files' = SaveFile(files, name, content, tick)
              ELSE /\ tick = 0
                   /\ files' = files
           /\ cache' = r.store
           /\ last' = [op |-> "confirm", name |-> name, key |-> r.key,
                       existed |-> r.existed, readCalled |-> r.readCalled,
                       readOk |-> r.readOk, normCalled |-> r.normCalled,
                       wrote |-> r.wrote, removed |-> {},
                       outcome |-> r.outcome, after |-> NoBuild]
           /\ IF r.outcome = "loaded"
              THEN /\ storedData' = [storedData EXCEPT ![s] = r.key]
                   /\ storedFilename' = [storedFilename EXCEPT ![s] = name]
                   /\ tempUpload' = [tempUpload EXCEPT ![s] = NoTemp]
              ELSE UNCHANGED <<storedData, storedFilename, tempUpload>>
    /\ UNCHANGED <<concVars, normVars, aggVars, pureVars>>

-----------------------------------------------------------------------------
(* The data folder is edited from outside the application *)

\* a data file is created or rewritten; its modification time moves forward
ModifyFile(f, content, tick) ==
    /\ LaterTick(files, f, tick)
    /\ files' = [files EXCEPT ![f] =
                    [exists |-> TRUE, content |-> content, mtime |-> tick]]
    /\ last' = NoOp
    /\ UNCHANGED <<cache, storedData, storedFilename, tempUpload,
                   concVars, normVars, aggVars, pureVars>>

-----------------------------------------------------------------------------
(* Specification of the cache with callbacks run one at a time *)

DataNames == {NameY, NameT}
EditedNames == {NameY}
UploadInputs == {<<NameX, "csvA">>, <<NameX, "garbage">>, <<NameT, "csvA">>}
SeqSessions == {1}

NoPend == [name |-> NoName, key |-> NoPath, table |-> NoTable]

IdleConc ==
    /\ pc = [s \in Sessions |-> "idle"]
    /\ pend = [s \in Sessions |-> NoPend]
    /\ seen = [s \in Sessions |-> "none"]

NotRun == [done |-> FALSE, col |-> <<>>]
IdleNorm == normIn = <<>> /\ normOut = NotRun

NoQuery ==
    [gtype |-> "none", col |-> <<>>, filter |-> {}, sort |-> "none", top |-> 0,
     mode |-> "count"]
NoResult == [kind |-> "none", rows |-> <<>>]
IdleAgg == aggIn = NoQuery /\ aggOut = NoResult

NotAsked == [asked |-> FALSE]
NotResolved == [done |-> FALSE, options |-> <<>>]
IdleDom == domIn = NotAsked /\ domOut = NotResolved
IdlePred == predIn = NotAsked /\ predOut = [kind |-> "none"]
NotTrained == [done |-> FALSE, saved |-> FALSE, map |-> <<>>]
IdleTrain == trainIn = <<>> /\ trainOut = NotTrained
IdlePure == IdleDom /\ IdlePred /\ IdleTrain

IdleCache ==
    /\ files = [n \in DataNames |-> NoFile]
    /\ cache = EmptyStore
    /\ storedData = [s \in Sessions |-> NoPath]
    /\ storedFilename = [s \in Sessions |-> NoName]
    /\ tempUpload = [s \in Sessions |-> NoTemp]
    /\ last = NoOp

Init == IdleCache /\ IdleConc /\ IdleNorm /\ IdleAgg /\ IdlePure

Next ==
    \/ \E f \in EditedNames, c \in Contents, t \in Ticks : ModifyFile(f, c, t)
    \/ \E s \in SeqSessions, f \in DataNames, wr \in WriteOutcomes : Select(s, f, wr)
    \/ \E s \in SeqSessions, u \in UploadInputs : Upload(s, u[1], u[2])
    \/ \E s \in SeqSessions, ch \in {"yes", "no"}, t \in Ticks, wr \in WriteOutcomes :
          Confirm(s, ch, t, wr)

Spec == Init /\ [][Next]_vars

-----------------------------------------------------------------------------
(* Claims about the cache, callbacks run one at a time (Spec) *)

Secs == 0..IntMtime(MaxTick)

\* C1: a select of F that directly follows a select of F which built the
\* entry (file name and modification time unchanged in between) is a pure
\* cache hit: read_file and the normalizer are not called, nothing is written
\* or removed, and the same cache path is returned.
C1_SecondSelectIsPureHit ==
    (last.op = "select" /\ last.after.name = last.name) =>
        /\ last.existed
        /\ ~last.readCalled /\ ~last.normCalled
        /\ ~last.wrote /\ last.removed = {}
        /\ last.outcome = "loaded"
        /\ last.key = last.after.key
        /\ storedData[1] = last.after.key
        /\ CacheExists(cache, last.key)

C1_Witness ==
    /\ last.op = "select" /\ last.after.name = last.name
    /\ last.existed /\ storedData[1] = last.key

\* C2: confirming an upload whose entry already exists under the content-hash
\* key returns that entry without calling read_file or the normalizer and
\* without writing to the cache.
C2_RepeatUploadIsHit ==
    (last.op = "confirm" /\ last.existed) =>
        ~last.readCalled /\ ~last.normCalled /\ ~last.wrote

\* C3: whenever the modification time of a data file changes, the cache file
\* name derived for a select of that file changes.
C3_MtimeChangeChangesKey ==
    [][\A f \in DOMAIN files :
          (files[f].exists /\ files'[f].exists
             /\ files'[f].mtime # files[f].mtime) =>
          SelectCacheName(SecureFilename(f), IntMtime(files'[f].mtime))
            # SelectCacheName(SecureFilename(f), IntMtime(files[f].mtime))]_vars

C5_ReadFailureReportsError ==
    (last.op \in {"select", "confirm"} /\ last.readCalled /\ ~last.readOk) =>
        /\ last.outcome # "loaded"
        /\ ~CacheExists(cache, last.key)

\* C6: a select that missed the cache and did not complete the rebuild leaves
\* every entry of the cache folder in place and unchanged.
C6_FailedRebuildKeepsEntries ==
    [][(last'.op = "select" /\ ~last'.existed /\ ~last'.wrote) =>
          \A k \in DOMAIN cache : k \in DOMAIN cache' /\ cache'[k] = cache[k]]_vars

\* C23: whenever a select of F returns a cache path at which an entry exists,
\* that entry is the normalized form of F's present content, whatever
\* modifications of data files, saved uploads and selects came before.
C23_CacheCoherence ==
    (last.op = "select" /\ last.outcome = "loaded"
        /\ CacheExists(cache, last.key)) =>
        cache[last.key].table =
            NormalizeTable(ReadFile(files[last.name].content, last.name))

\* C27: an upload is processed by at most one confirmation: a run of the
\* confirm callback that follows another run of it with no upload in between
\* saves no file to the data folder, writes nothing to the cache and leaves
\* the stored table path and filename as they are.
C27_OneConfirmationPerUpload ==
    [][(last.op = "confirm" /\ last'.op = "confirm") =>
          /\ files' = files /\ cache' = cache
          /\ storedData' = storedData /\ storedFilename' = storedFilename]_vars

-----------------------------------------------------------------------------
(* The same callbacks run by sessions in parallel: each callback is a        *)
(* sequence of file-system steps, and steps of different sessions interleave *)

\* what a look at a cache path finds
Observe(store, key) ==
    IF ~CacheExists(store, key) THEN "absent"
    ELSE IF store[key].complete THEN "complete"
    ELSE "partial"

\* df.to_parquet(path), first half: the file is created (or truncated) at the
\* cache path itself and the writer starts to fill it
OpenForWrite(store, key, table, s) ==
    [k \in (DOMAIN store) \cup {key} |->
        IF k = key THEN [table |-> table, complete |-> FALSE, writer |-> s]
        ELSE store[k]]

\* df.to_parquet(path), second half: the footer is written and the file is
\* closed; nothing happens at the path if the file was unlinked or reopened
CloseWrite(store, key, s) ==
    IF CacheExists(store, key) /\ store[key].writer = s
    THEN [store EXCEPT ![key] = [table |-> store[key].table,
                                 complete |-> TRUE, writer |-> 0]]
    ELSE store

\* the callback returns its outputs (lines 363 and 438)
ReturnLoaded(s, key, name) ==
    /\ storedData' = [storedData EXCEPT ![s] = key]
    /\ storedFilename' = [storedFilename EXCEPT ![s] = name]
    /\ tempUpload' = [tempUpload EXCEPT ![s] = NoTemp]
    /\ pc' = [pc EXCEPT ![s] = "idle"]
    /\ pend' = [pend EXCEPT ![s] = NoPend]

\* lines 321-332: stat, derive the name, test cache_filepath.exists()
CSelectBegin(s, f) ==
    /\ pc[s] = "idle"
    /\ f \in ListExcelFiles(files)
    /\ LET key == SelectCacheName(SecureFilename(f), IntMtime(files[f].mtime))
       IN  IF CacheExists(cache, key)
           THEN /\ seen' = [seen EXCEPT ![s] = Observe(cache, key)]
                /\ ReturnLoaded(s, key, f)
           ELSE /\ pc' = [pc EXCEPT ![s] = "sweep"]
                /\ pend' = [pend EXCEPT ![s] =
                               [name |-> f, key |-> key, table |-> NoTable]]
                /\ UNCHANGED <<seen, storedData, storedFilename, tempUpload>>
    /\ UNCHANGED <<files, cache, last, normVars, aggVars, pureVars>>

\* lines 335-338: after the sleep, remove what the glob matches
CSelectSweep(s) ==
    /\ pc[s] = "sweep"
    /\ cache' = RemoveAll(cache, GlobSelect(SecureFilename(pend[s].name), cache))
    /\ pc' = [pc EXCEPT ![s] = "read"]
    /\ UNCHANGED <<files, storedData, storedFilename, tempUpload, last,
                   pend, seen, normVars, aggVars, pureVars>>

\* lines 340-349: read_file and the normalizer loop
CSelectRead(s) ==
    /\ pc[s] = "read"
    /\ LET f == pend[s].name
           raw == ReadFile(files[f].content, f)
       IN  IF raw = NoTable
           THEN ReturnLoaded(s, pend[s].key, f)
           ELSE /\ pc' = [pc EXCEPT ![s] = "write"]
                /\ pend' = [pend EXCEPT ![s].table = NormalizeTable(raw)]
                /\ UNCHANGED <<storedData, storedFilename, tempUpload>>
    /\ UNCHANGED <<files, cache, last, seen, normVars, aggVars, pureVars>>

\* lines 385-426: the confirm callback up to the call of to_parquet
CConfirmRead(s) ==
    /\ pc[s] = "idle"
    /\ tempUpload[s] # NoTemp
    /\ LET name == tempUpload[s].name
           content == tempUpload[s].content
           key == UploadCacheName(SecureFilename(name), content)
           raw == ReadFile(content, name)
       IN  IF raw = NoTable
           THEN ReturnLoaded(s, key, name)
           ELSE /\ pc' = [pc EXCEPT ![s] = "write"]
                /\ pend' = [pend EXCEPT ![s] =
                      [name |-> name, key |-> key, table |-> NormalizeTable(raw)]]
                /\ UNCHANGED <<storedData, storedFilename, tempUpload>>
    /\ UNCHANGED <<files, cache, last, seen, normVars, aggVars, pureVars>>

\* lines 350 and 427: to_parquet opens the cache path
CWriteOpen(s) ==
    /\ pc[s] = "write"
    /\ cache' = OpenForWrite(cache, pend[s].key, pend[s].table, s)
    /\ pc' = [pc EXCEPT ![s] = "writing"]
    /\ UNCHANGED <<files, storedData, storedFilename, tempUpload, last,
                   pend, seen, normVars, aggVars, pureVars>>

\* lines 350 and 427: to_parquet returns, then the callback returns
CWriteClose(s) ==
    /\ pc[s] = "writing"
    /\ cache' = CloseWrite(cache, pend[s].key, s)
    /\ ReturnLoaded(s, pend[s].key, pend[s].name)
    /\ UNCHANGED <<files, last, seen, normVars, aggVars, pureVars>>

\* pd.read_parquet(cache_filepath) of a later callback of the session
\* (handle_action_choice, generate_graph, ...)
CReadStored(s) ==
    /\ pc[s] = "idle"
    /\ storedData[s] # NoPath
    /\ seen' = [seen EXCEPT ![s] = Observe(cache, storedData[s])]
    /\ UNCHANGED <<cacheVars, pc, pend, normVars, aggVars, pureVars>>

\* the upload-data trigger, by a session that runs no other callback
CUpload(s, name, content) ==
    /\ pc[s] = "idle"
    /\ name # NoName
    /\ tempUpload' = [tempUpload EXCEPT ![s] = [name |-> name, content |-> content]]
    /\ UNCHANGED <<files, cache, storedData, storedFilename, last,
                   concVars, normVars, aggVars, pureVars>>

ConcUploads == {<<NameX, "csvA">>}

NextConc ==
    \/ \E t \in Ticks : ModifyFile(NameY, "csvA", t)
    \/ \E s \in Sessions : CSelectBegin(s, NameY)
    \/ \E s \in Sessions : CSelectSweep(s)
    \/ \E s \in Sessions : CSelectRead(s)
    \/ \E s \in Sessions, u \in ConcUploads : CUpload(s, u[1], u[2])
    \/ \E s \in Sessions : CConfirmRead(s)
    \/ \E s \in Sessions : CWriteOpen(s)
    \/ \E s \in Sessions : CWriteClose(s)
    \/ \E s \in Sessions : CReadStored(s)

SpecConc == Init /\ [][NextConc]_vars

\* C7: no request finds, at a cache path, an entry that is only partially
\* written: whatever a request looks at is absent or complete.
C7_NoPartialEntryObserved == \A s \in Sessions : seen[s] # "partial"

\* the path stored by session s is the select key of its file at the file's
\* present modification time, and a complete entry is published there
HoldsCurrentEntry(s) ==
    /\ pc[s] = "idle"
    /\ storedData[s] # NoPath
    /\ storedFilename[s] \in ListExcelFiles(files)
    /\ storedData[s] = SelectCacheName(SecureFilename(storedFilename[s]),
                                       IntMtime(files[storedFilename[s]].mtime))
    /\ Observe(cache, storedData[s]) = "complete"

\* C24: with sessions selecting the same file at an unchanged modification
\* time, an entry published under the current key whose path was returned to
\* a session is not removed by a step of another session's select, so the
\* session's later reads of its stored path find the entry.
C24_ReturnedEntryNotRemoved ==
    [][\A s \in Sessions :
          (HoldsCurrentEntry(s) /\ files' = files) =>
              CacheExists(cache', storedData[s])]_vars

-----------------------------------------------------------------------------
(* The column normalizer as a function of one raw column *)

\* cells of a raw object column: a date in text, padded text, an empty cell,
\* and a datetime object (a spreadsheet cell typed as date)
NormCells ==
    {Text(<<"2024-01-05">>), Text(<<" ", "x", " ">>), Null, Date("2024-03-09")}

RECURSIVE SeqsUpTo(_, _)
SeqsUpTo(S, n) ==
    IF n = 0 THEN {<<>>}
    ELSE LET shorter == SeqsUpTo(S, n - 1)
         IN  shorter \cup {Append(q, x) : q \in {r \in shorter : Len(r) = n - 1}, x \in S}

InitNorm ==
    /\ IdleCache /\ IdleConc /\ IdleAgg /\ IdlePure
    /\ normIn \in SeqsUpTo(NormCells, MaxRows)
    /\ normOut = NotRun

\* one pass of the loop body of lines 342-349 over the column
NormalizeStep ==
    /\ ~normOut.done
    /\ normOut' = [done |-> TRUE, col |-> NormalizeColumn(normIn)]
    /\ UNCHANGED <<normIn, cacheVars, concVars, aggVars, pureVars>>

NextNorm == NormalizeStep

SpecNorm == InitNorm /\ [][NextNorm]_vars

ParsedCount(col) ==
    Cardinality({i \in 1..Len(col) : ~IsNull(ToDatetime(col[i]))})

\* C8: a textual column becomes its parsed dates exactly when at least one
\* value parses and the values that parse are more than half of the column's
\* non-null values (unparseable entries become null); otherwise it stays text
\* with every string stripped and every non-string value unchanged.
C8_DateThreshold ==
    (normOut.done /\ IsObjectColumn(normIn)) =>
        IF ParsedCount(normIn) > 0 /\ 2 * ParsedCount(normIn) > NotNaCount(normIn)
        THEN \A i \in 1..Len(normIn) : normOut.col[i] = ToDatetime(normIn[i])
        ELSE \A i \in 1..Len(normIn) :
                normOut.col[i] = IF IsStr(normIn[i]) THEN Text(Strip(normIn[i].v))
                                 ELSE normIn[i]

-----------------------------------------------------------------------------
(* generate_graph, branch g_type == '1d' *)

\* str(value): the text of a string, 'None' for a missing value
StrOf(c) == IF IsNull(c) THEN "None" ELSE c.v[1]

\* values of the axis column in the model
AxisValues == {Text(<<"A">>), Text(<<"B">>), Text(<<"C">>)}
AxisCells == AxisValues \cup {Null}

\* df_plot[x].astype(str)
AsStr(col) == [i \in 1..Len(col) |-> StrOf(col[i])]

\* df_plot[df_plot[x].isin([str(val) for val in x_filter])], as row numbers;
\* an empty x_filter is falsy and filters nothing
FilterRows(strs, filter) ==
    IF filter = {} THEN 1..Len(strs)
    ELSE {i \in 1..Len(strs) : strs[i] \in {StrOf(v) : v \in filter}}

CountOne(strs, rows, label) == 1

\* the Count of one label in Series.value_counts()
CountOf(strs, rows, label) == Cardinality({i \in rows : strs[i] = label})

Labels(strs, rows) == {strs[i] : i \in rows}

OrdersUnsorted(strs, rows, descending) ==
    LET labs == Labels(strs, rows)
        n == Cardinality(labs)
    IN  {q \in [1..n -> labs] : \A i, j \in 1..n : i # j => q[i] # q[j]}

\* the orders in which a sort by Count may leave the labels: pandas does not
\* fix the order of equal counts (value_counts and sort_values, quicksort)
OrdersByCount(strs, rows, descending) ==
    LET labs == Labels(strs, rows)
        n == Cardinality(labs)
    IN  {q \in [1..n -> labs] :
            /\ \A i, j \in 1..n : i # j => q[i] # q[j]
            /\ \A i \in 1..n, j \in 1..n :
                  i < j => IF descending
                           THEN CountOf(strs, rows, q[i]) >= CountOf(strs, rows, q[j])
                           ELSE CountOf(strs, rows, q[i]) <= CountOf(strs, rows, q[j])}

\* value_counts.head(top_n); a top_n of None (0 here) is falsy
HeadN(q, top) ==
    IF top = 0 \/ top >= Len(q) THEN q ELSE SubSeq(q, 1, top)

RECURSIVE SumCounts(_, _, _)
SumCounts(strs, rows, q) ==
    IF q = <<>> THEN 0
    ELSE CountOf(strs, rows, q[1]) + SumCounts(strs, rows, Tail(q))

\* value_counts['Percentage'] = (Count / total) * 100 if total > 0 else 0,
\* kept as the exact fraction <<numerator, denominator>>
Percentage(count, total) ==
    IF total > 0 THEN <<count * 100, total>> ELSE <<0, 1>>

\* the table handed to the plot function
ResultRows(strs, rows, q, mode) ==
    LET total == SumCounts(strs, rows, q)
    IN  [i \in 1..Len(q) |->
            IF mode = "percentage"
            THEN [x |-> q[i], Count |-> CountOf(strs, rows, q[i]),
                  Percentage |-> Percentage(CountOf(strs, rows, q[i]), total)]
            ELSE [x |-> q[i], Count |-> CountOf(strs, rows, q[i])]]

\* lines 981-1005: the outcomes generate_graph may return for a 1D query
Graph1D(query) ==
    LET strs == AsStr(query.col)
        rows == FilterRows(strs, query.filter)
    IN  IF rows = {}
        THEN {[kind |-> "info", rows |-> <<>>]}
        ELSE {[kind |-> "chart",
               rows |-> ResultRows(strs, rows, HeadN(q, query.top), query.mode)] :
                 q \in OrdersByCount(strs, rows, query.sort # "asc")}

SortModes == {"none", "asc", "desc"}
TopNs == {0, 1, 2}
CountModes == {"count", "percentage"}

InitAgg ==
    /\ IdleCache /\ IdleConc /\ IdleNorm /\ IdlePure
    /\ aggIn \in [gtype : {"1d"}, col : SeqsUpTo(AxisCells, MaxRows1D),
                  filter : SUBSET AxisValues, sort : SortModes, top : TopNs,
                  mode : CountModes]
    /\ aggOut = NoResult

GenerateGraph1D ==
    /\ aggIn.gtype = "1d"
    /\ aggOut.kind = "none"
    /\ aggOut' \in Graph1D(aggIn)
    /\ UNCHANGED <<aggIn, cacheVars, concVars, normVars, pureVars>>

NextAgg == GenerateGraph1D

SpecAgg == InitAgg /\ [][NextAgg]_vars

\* rows of the column that pass the optional value filter
Passing(query) ==
    {i \in 1..Len(query.col) : query.filter = {} \/ query.col[i] \in query.filter}

PassingValues(query) == {query.col[i] : i \in Passing(query)}

RowsCarrying(query, v) == {i \in Passing(query) : query.col[i] = v}

RECURSIVE SumOfCounts(_)
SumOfCounts(rs) == IF rs = <<>> THEN 0 ELSE rs[1].Count + SumOfCounts(Tail(rs))

\* C9: with no sort and no top-N the result has exactly one row per distinct
\* axis value among the rows that pass the value filter, the Count of a row
\* is the number of passing rows that carry its value, and the Counts add up
\* to the number of passing rows.
C9_ValueCounts ==
    (aggOut.kind = "chart" /\ aggIn.sort = "none" /\ aggIn.top = 0) =>
        /\ Len(aggOut.rows) = Cardinality(PassingValues(aggIn))
        /\ \A v \in PassingValues(aggIn) :
              \E i \in 1..Len(aggOut.rows) :
                 /\ aggOut.rows[i].x = StrOf(v)
                 /\ aggOut.rows[i].Count = Cardinality(RowsCarrying(aggIn, v))
        /\ SumOfCounts(aggOut.rows) = Cardinality(Passing(aggIn))

\* the column [A, A, B, C] with a filter that lets A and B pass
C9_Witness ==
    /\ aggOut.kind = "chart" /\ aggIn.sort = "none" /\ aggIn.top = 0
    /\ aggIn.col = <<Text(<<"A">>), Text(<<"A">>), Text(<<"B">>), Text(<<"C">>)>>
    /\ aggIn.filter = {Text(<<"A">>), Text(<<"B">>)}
    /\ Len(aggOut.rows) = 2
    /\ aggOut.rows[1] = [x |-> "A", Count |-> 2]
    /\ aggOut.rows[2] = [x |-> "B", Count |-> 1]

\* C10: in percentage mode, for every filter, sort and top-N, the Percentage
\* of each returned category is 100 * Count / (number of rows remaining after
\* the value filter), and 0 when that number is 0.
C10_PercentageOfFilteredTotal ==
    (aggOut.kind = "chart" /\ aggIn.mode = "percentage") =>
        \A i \in 1..Len(aggOut.rows) :
           LET r == aggOut.rows[i]
               total == Cardinality(Passing(aggIn))
           IN  IF total = 0 THEN r.Percentage[1] = 0
               ELSE r.Percentage[1] * total = 100 * r.Count * r.Percentage[2]

\* the smaller of two numbers
Min2(a, b) == IF a <= b THEN a ELSE b

\* C11: with sort=desc and top_n=N the result is the min(N, number of
\* categories) categories of largest Count, in non-increasing Count order:
\* every returned row is a category with its own Count, no category is
\* returned twice, and no category left out has a larger Count than one
\* that was kept.
C11_TopNAfterSort ==
    (aggOut.kind = "chart" /\ aggIn.gtype = "1d" /\ aggIn.sort = "desc"
        /\ aggIn.top > 0) =>
        LET rs == aggOut.rows
            kept == {rs[i].x : i \in 1..Len(rs)}
            cats == {StrOf(v) : v \in PassingValues(aggIn)}
            cnt(l) == Cardinality({i \in Passing(aggIn) : StrOf(aggIn.col[i]) = l})
        IN  /\ Len(rs) = Min2(aggIn.top, Cardinality(cats))
            /\ Cardinality(kept) = Len(rs)
            /\ kept \subseteq cats
            /\ \A i \in 1..Len(rs) : rs[i].Count = cnt(rs[i].x)
            /\ \A i, j \in 1..Len(rs) : i < j => rs[i].Count >= rs[j].Count
            /\ \A l \in cats \ kept : \A k \in kept : cnt(l) <= cnt(k)

\* the column [B, A, C, A] with sort=desc and top_n=2: A:2 first, then one of
\* the categories of Count 1, and the third category is cut
C11_Witness ==
    /\ aggOut.kind = "chart" /\ aggIn.gtype = "1d"
    /\ aggIn.sort = "desc" /\ aggIn.top = 2 /\ aggIn.mode = "count"
    /\ aggIn.col = <<Text(<<"B">>), Text(<<"A">>), Text(<<"C">>), Text(<<"A">>)>>
    /\ aggIn.filter = {}
    /\ Len(aggOut.rows) = 2
    /\ aggOut.rows[1] = [x |-> "A", Count |-> 2]
    /\ aggOut.rows[2].Count = 1

-----------------------------------------------------------------------------
(* generate_graph over a whole table: 2D normal, 2D comparison, 3D, 1D *)

\* dates of the date column in the model (midnight timestamps)
GraphDates == {"2024-01-01", "2024-01-05", "2024-03-09"}

\* calendar month of a date, counted from 2024-01 = 1
MonthOf(tok) ==
    CASE tok = "2024-01-01" -> 1
      [] tok = "2024-01-05" -> 1
      [] tok = "2024-03-09" -> 3

\* day of the month of a date
DayOf(tok) ==
    CASE tok = "2024-01-01" -> 1
      [] tok = "2024-01-05" -> 5
      [] tok = "2024-03-09" -> 9

\* str(Period('M')) of the months of the model
MonthLabels == <<"2024-01", "2024-02", "2024-03", "2024-04">>

\* Series.dt.to_period('M').astype(str) on one cell; NaT gives 'NaT'
DateGroup(c) == IF IsNull(c) THEN "NaT" ELSE MonthLabels[MonthOf(c.v[1])]

NotBefore(a, b) ==
    \/ MonthOf(a) > MonthOf(b)
    \/ MonthOf(a) = MonthOf(b) /\ DayOf(a) >= DayOf(b)

\* Series.min() / Series.max() over the dates of a non-empty set
MinDate(S) == CHOOSE a \in S : \A b \in S : NotBefore(b, a)
MaxDate(S) == CHOOSE a \in S : \A b \in S : NotBefore(a, b)

\* pd.date_range(start, end, freq='MS').to_period('M').astype(str).tolist():
\* freq='MS' generates the month STARTS that lie in [start, end], so the
\* first one is the first day of start's month only when start is that day
DateRange(start, end) ==
    LET first == IF DayOf(start) = 1 THEN MonthOf(start) ELSE MonthOf(start) + 1
    IN  [k \in 1..(MonthOf(end) - first + 1) |-> MonthLabels[first + k - 1]]

\* columns of the table of the model; "d" has a datetime dtype
Columns == {"d", "p1", "p2"}
\* ptypes.is_datetime64_any_dtype(df[x])
IsDateColumn(c) == c = "d"

DateCells == {Date(t) : t \in GraphDates} \cup {Null}
PartValues == {Text(<<"A">>), Text(<<"B">>)}
TableRows == [d : DateCells, p1 : PartValues \cup {Null}, p2 : PartValues]

\* the outcomes of generate_graph: kind is the alert colour or "chart"; n is
\* the number of rows of the frame handed to the plot function
Alert(kind) == [kind |-> kind, rows |-> {}, axis |-> <<>>, n |-> 0]
Chart(rows, axis) ==
    [kind |-> "chart", rows |-> rows, axis |-> axis, n |-> Cardinality(rows)]

Range(q) == {q[i] : i \in DOMAIN q}

\* the order in which groupby leaves the group keys (sorted by key; the
\* model does not order labels and allows any order)
GroupOrder(strs, rows) ==
    LET labs == Labels(strs, rows)
        n == Cardinality(labs)
    IN  {q \in [1..n -> labs] : \A i, j \in 1..n : i # j => q[i] # q[j]}

\* lines 943-949 and 965-970: final_x_order of a categorical X axis
FinalXOrder(strs, rows, sort, top) ==
    LET sorted == IF sort # "none" THEN OrdersByCount(strs, rows, sort # "asc")
                  ELSE IF top > 0 THEN OrdersByCount(strs, rows, TRUE)
                  ELSE GroupOrder(strs, rows)
    IN  {HeadN(q, top) : q \in sorted}

StrsOf(filter) == {StrOf(v) : v \in filter}

\* lines 920-979: g_type == '2d' and td_mode == 'normal'
Graph2DNormal(query) ==
    LET t == query.table
        x == query.x
        y == query.y
    IN  IF x = "" \/ y = "" THEN {Alert("warning")}
        ELSE IF ~({x, y} \subseteq Columns) THEN {Alert("danger")}
        ELSE
        LET kept == {i \in 1..Len(t) : ~IsNull(t[i][x]) /\ ~IsNull(t[i][y])}
            is_date_axis == IsDateColumn(x)
            xs == [i \in 1..Len(t) |->
                     IF is_date_axis THEN DateGroup(t[i][x]) ELSE StrOf(t[i][x])]
            ys == [i \in 1..Len(t) |-> StrOf(t[i][y])]
            dates == {t[i][x].v[1] : i \in kept}
            full_month_range ==
                IF is_date_axis /\ kept # {}
                THEN DateRange(MinDate(dates), MaxDate(dates)) ELSE <<>>
            df_plot == {i \in kept :
                          /\ query.xf = {} \/ xs[i] \in StrsOf(query.xf)
                          /\ query.yf = {} \/ ys[i] \in StrsOf(query.yf)}
            orders == IF is_date_axis THEN {full_month_range}
                      ELSE FinalXOrder(xs, df_plot, query.sort, query.top)
        IN  IF df_plot = {} THEN {Alert("info")}
            ELSE IF query.style = "bar_stacked"
            THEN {LET shown == {i \in df_plot : xs[i] \in Range(final_x_order)}
                  IN  IF shown = {} THEN Alert("info")
                      ELSE Chart({[x |-> xs[i], y |-> ys[i],
                                   Count |-> Cardinality({j \in shown :
                                       xs[j] = xs[i] /\ ys[j] = ys[i]})] :
                                     i \in shown}, final_x_order) :
                     final_x_order \in orders}
            ELSE IF query.style \notin {"line", "area", "bar"}
            THEN {Alert("danger")}
            ELSE {Chart({[x |-> xs[i], Count |-> CountOf(xs, df_plot, xs[i])] :
                           i \in {j \in df_plot : xs[j] \in Range(final_x_order)}},
                        final_x_order) :
                     final_x_order \in orders}

\* the number of melted rows of a group (groupby(...).size())
GroupSize(t, agg, group) == Cardinality(group)

\* line 901: agg({pr_agg_col: 'nunique'}), the number of distinct non-null
\* values of the grouping column among the melted rows of a group
NUnique(t, agg, group) ==
    Cardinality({t[k[1]][agg] : k \in {j \in group : ~IsNull(t[j[1]][agg])}})

\* lines 862-918: g_type == '2d' and td_mode == 'prod_repair'
Graph2DCompare(query) ==
    LET t == query.table
        date == query.date
        agg == query.agg
    IN  IF date = "" \/ query.cols = {} \/ query.values = {}
        THEN {Alert("warning")}
        ELSE
        LET valid_value_cols == query.cols \cap Columns
            df_melted == {<<i, c>> : i \in 1..Len(t), c \in valid_value_cols}
            df_plot == {m \in df_melted : t[m[1]][m[2]] \in query.values}
        IN  IF valid_value_cols = {} THEN {Alert("danger")}
            ELSE IF df_plot = {} THEN {Alert("info")}
            ELSE IF ~IsDateColumn(date) THEN {Alert("danger")}
            ELSE IF agg # "" /\ agg \notin Columns THEN {Alert("danger")}
            ELSE
            LET side == {m \in df_plot :
                            agg = "" \/ IsNull(query.side)
                               \/ t[m[1]][agg] = query.side}
                key(m) == <<DateGroup(t[m[1]][date]), StrOf(t[m[1]][m[2]])>>
                size(m) == Cardinality({k \in side : key(k) = key(m)})
                nunique(m) == NUnique(t, agg, {j \in side : key(j) = key(m)})
                grouped_df == {[x |-> key(m)[1], y |-> key(m)[2],
                                Count |-> IF agg # "" /\ IsNull(query.side)
                                          THEN nunique(m) ELSE size(m)] :
                                 m \in side}
                dates == {t[i][date].v[1] :
                            i \in {j \in 1..Len(t) : ~IsNull(t[j][date])}}
            IN  IF side = {} THEN {Alert("info")}
                ELSE IF dates = {} THEN {Alert("danger")}
                ELSE {Chart(grouped_df, DateRange(MinDate(dates), MaxDate(dates)))}

\* lines 1007-1022: g_type == '3d'
Graph3D(query) ==
    LET t == query.table
        x == query.x
        y == query.y
        z == query.z
    IN  IF x = "" \/ y = "" \/ z = "" THEN {Alert("warning")}
        ELSE IF ~({x, y, z} \subseteq Columns) THEN {Alert("danger")}
        ELSE
        LET df_plot == {i \in 1..Len(t) :
                          /\ ~IsNull(t[i][x]) /\ ~IsNull(t[i][y]) /\ ~IsNull(t[i][z])
                          /\ query.xf = {} \/ t[i][x] \in query.xf
                          /\ query.yf = {} \/ t[i][y] \in query.yf
                          /\ query.zf = {} \/ t[i][z] \in query.zf}
            point(i) == [x |-> StrOf(t[i][x]), y |-> StrOf(t[i][y]),
                         z |-> StrOf(t[i][z])]
        IN  IF df_plot = {} THEN {Alert("info")}
            ELSE IF query.style = "bubble_3d"
            THEN {Chart({[x |-> point(i).x, y |-> point(i).y, z |-> point(i).z,
                          Count |-> Cardinality({j \in df_plot : point(j) = point(i)})] :
                            i \in df_plot}, <<>>)}
            ELSE {Chart({[row |-> i, x |-> point(i).x, y |-> point(i).y,
                          z |-> point(i).z] : i \in df_plot}, <<>>)}

\* lines 981-1005 on the column x of the table
Graph1DOfTable(query) ==
    IF query.x = "" THEN {Alert("warning")}
    ELSE IF query.x \notin Columns THEN {Alert("danger")}
    ELSE {IF o.kind = "chart" THEN Chart(Range(o.rows), <<>>) ELSE Alert(o.kind) :
            o \in Graph1D([col |-> [i \in 1..Len(query.table) |->
                                       query.table[i][query.x]],
                           filter |-> query.xf, sort |-> query.sort,
                           top |-> query.top, mode |-> query.count])}

GenerateGraphNoElse(query) ==
    IF query.gtype = "2d" /\ query.mode = "prod_repair" THEN Graph2DCompare(query)
    ELSE IF query.gtype = "2d" /\ query.mode = "normal" THEN Graph2DNormal(query)
    ELSE IF query.gtype = "1d" THEN Graph1DOfTable(query)
    ELSE IF query.gtype = "3d" THEN Graph3D(query)
    ELSE {Alert("danger")}

\* lines 861-1029: the try block of generate_graph, branch by branch; an
\* exception raised inside it becomes the "danger" alert of line 1029
GenerateGraphOutcomes(query) ==
    IF query.gtype = "2d" /\ query.mode = "prod_repair" THEN Graph2DCompare(query)
    ELSE IF query.gtype = "2d" /\ query.mode = "normal" THEN Graph2DNormal(query)
    ELSE IF query.gtype = "1d" THEN Graph1DOfTable(query)
    ELSE IF query.gtype = "3d" THEN Graph3D(query)
    ELSE {Alert("warning")}

\* the callback's inputs when nothing is chosen
BlankQuery ==
    [gtype |-> "none", mode |-> "none", style |-> "bar", count |-> "count",
     sort |-> "none", top |-> 0, x |-> "", xf |-> {}, y |-> "", yf |-> {},
     z |-> "", zf |-> {}, date |-> "", cols |-> {}, values |-> {},
     agg |-> "", side |-> Null, table |-> <<>>]

ValueA == Text(<<"A">>)
ValueB == Text(<<"B">>)

\* 2D normal: a required axis missing, a date X axis, a categorical X axis
Queries2DNormal ==
    {[BlankQuery EXCEPT !.gtype = "2d", !.mode = "normal", !.x = x, !.y = y] :
        x \in {"", "d"}, y \in {"", "p2"}}
    \cup {[BlankQuery EXCEPT !.gtype = "2d", !.mode = "normal", !.x = "d",
             !.y = "p2", !.style = st, !.yf = yf] :
            st \in {"bar_stacked", "bar"}, yf \in {{}, {ValueA}}}
    \cup {[BlankQuery EXCEPT !.gtype = "2d", !.mode = "normal", !.x = "p1",
             !.y = "p2", !.style = st, !.sort = so, !.top = tp, !.xf = xf] :
            st \in {"bar_stacked", "bar", "scatter_3d"}, so \in {"none", "asc"},
            tp \in {0, 1}, xf \in {{}, {ValueB}}}

\* 2D comparison: steps 1-3 complete or not, one or two search columns, a
\* search column that is not in the table, with and without a grouping column
Queries2DCompare ==
    {[BlankQuery EXCEPT !.gtype = "2d", !.mode = "prod_repair", !.date = d,
        !.cols = cs, !.values = vs] :
        d \in {"", "d"}, cs \in {{}, {"p1"}, {"p1", "p2"}, {"gone"}},
        vs \in {{}, {ValueA}, {ValueA, ValueB}}}
    \cup {[BlankQuery EXCEPT !.gtype = "2d", !.mode = "prod_repair", !.date = "d",
             !.cols = {"p1"}, !.values = vs, !.agg = "p2", !.side = sd] :
            vs \in {{ValueA}, {ValueA, ValueB}}, sd \in {Null, ValueA}}
    \cup {[BlankQuery EXCEPT !.gtype = "2d", !.mode = "prod_repair", !.date = "d",
             !.cols = {"p2"}, !.values = vs, !.agg = "p1"] :
            vs \in {{ValueA}, {ValueA, ValueB}}}

Queries1D ==
    {[BlankQuery EXCEPT !.gtype = "1d", !.x = x, !.top = tp] :
        x \in {"", "p1", "gone"}, tp \in {0, 1}}

Queries3D ==
    {[BlankQuery EXCEPT !.gtype = "3d", !.style = st, !.x = x, !.y = y, !.z = z] :
        st \in {"scatter_3d", "bubble_3d"}, x \in {"", "d"}, y \in {"", "p1"},
        z \in {"", "p2"}}
    \cup {[BlankQuery EXCEPT !.gtype = "3d", !.style = "scatter_3d", !.x = "d",
             !.y = "p1", !.z = "p2", !.zf = {ValueA}]}

\* a graph kind / 2D sub-mode that is none of the four supported shapes
QueriesInvalid ==
    {[BlankQuery EXCEPT !.gtype = g, !.mode = m, !.x = "p1", !.y = "p2"] :
        g \in {"none", "2d"}, m \in {"none"}}
    \cup {[BlankQuery EXCEPT !.gtype = "none", !.mode = "normal", !.x = "p1"]}

Queries ==
    Queries2DNormal \cup Queries2DCompare \cup Queries1D \cup Queries3D
        \cup QueriesInvalid

InitGraph ==
    /\ IdleCache /\ IdleConc /\ IdleNorm /\ IdlePure
    /\ \E q \in Queries, t \in SeqsUpTo(TableRows, MaxRows2D) :
          aggIn = [q EXCEPT !.table = t]
    /\ aggOut = NoResult

\* one click on "generate" with the table already read (line 858)
GenerateGraph ==
    /\ aggOut.kind = "none"
    /\ aggOut' \in GenerateGraphOutcomes(aggIn)
    /\ UNCHANGED <<aggIn, cacheVars, concVars, normVars, pureVars>>

NextGraph == GenerateGraph

SpecGraph == InitGraph /\ [][NextGraph]_vars

\* the calendar months from the month of start through the month of end
MonthsFromTo(start, end) ==
    [k \in 1..(MonthOf(end) - MonthOf(start) + 1) |->
        MonthLabels[MonthOf(start) + k - 1]]

\* the dates of column c in the rows of the table that satisfy keep
DatesOf(query, c, keep(_)) ==
    {query.table[i][c].v[1] :
       i \in {j \in 1..Len(query.table) :
                 ~IsNull(query.table[j][c]) /\ keep(query.table[j])}}

IsMonthLabel(l) == l \in Range(MonthLabels)

\* C12: with a date X axis in 2D normal mode (dates of the rows that have X
\* and Y) and in 2D comparison mode (dates of the whole table), the category
\* axis of a chart is the list of every calendar month from the month of the
\* minimum date through the month of the maximum date, and every month label
\* of the grouped result is on the axis.
C12_MonthAxis ==
    (aggOut.kind = "chart" /\ aggIn.gtype = "2d"
        /\ \/ aggIn.mode = "normal" /\ aggIn.x = "d"
           \/ aggIn.mode = "prod_repair") =>
        LET all(r) == TRUE
            dates == IF aggIn.mode = "normal"
                     THEN DatesOf(aggIn, "d", all)
                     ELSE DatesOf(aggIn, aggIn.date, all)
        IN  /\ aggOut.axis = MonthsFromTo(MinDate(dates), MaxDate(dates))
            /\ \A r \in aggOut.rows :
                  IsMonthLabel(r.x) => r.x \in Range(aggOut.axis)

\* the rows of the table dated in month m in which a search column holds v
RowsHolding(query, m, v) ==
    {i \in 1..Len(query.table) :
        /\ ~IsNull(query.table[i][query.date])
        /\ DateGroup(query.table[i][query.date]) = m
        /\ \E c \in query.cols \cap Columns : query.table[i][c] = v}

\* C13: 2D comparison with no grouping column: for each month M and compared
\* value V the Count is the number of table rows dated in M in which at least
\* one search column equals V (a row holding V in several search columns
\* counts once), and the result has no row for a pair that no table row holds.
C13_CompareCountsRows ==
    (aggOut.kind = "chart" /\ aggIn.gtype = "2d" /\ aggIn.mode = "prod_repair"
        /\ aggIn.agg = "") =>
        \A m \in Range(MonthLabels), v \in aggIn.values :
           LET expected == Cardinality(RowsHolding(aggIn, m, v))
               found == {r \in aggOut.rows : r.x = m /\ r.y = StrOf(v)}
           IN  IF expected = 0 THEN found = {}
               ELSE found = {[x |-> m, y |-> StrOf(v), Count |-> expected]}

\* the melted rows (table row, search column) dated in month m whose value is v
MeltedHolding(query, m, v) ==
    {k \in (1..Len(query.table)) \X (query.cols \cap Columns) :
        /\ ~IsNull(query.table[k[1]][query.date])
        /\ DateGroup(query.table[k[1]][query.date]) = m
        /\ query.table[k[1]][k[2]] = v}

\* the distinct non-null values of the grouping column among melted rows
DistinctIn(query, melted) ==
    {query.table[k[1]][query.agg] : k \in melted} \ {Null}

\* C22: 2D comparison with a grouping column and no filter value on it: for
\* each month M and compared value V the measure is the number of distinct
\* non-null values of the grouping column among the melted rows dated in M
\* whose value is V (a cardinality, not the number of rows).
C22_CompareCountsDistinct ==
    (aggOut.kind = "chart" /\ aggIn.gtype = "2d" /\ aggIn.mode = "prod_repair"
        /\ aggIn.agg # "" /\ IsNull(aggIn.side)) =>
        \A m \in Range(MonthLabels), v \in aggIn.values :
           LET melted == MeltedHolding(aggIn, m, v)
               found == {r \in aggOut.rows : r.x = m /\ r.y = StrOf(v)}
           IN  IF melted = {} THEN found = {}
               ELSE found = {[x |-> m, y |-> StrOf(v),
                              Count |-> Cardinality(DistinctIn(aggIn, melted))]}

\* a group of two melted rows that share one grouping value: measure 1
C22_Witness ==
    /\ aggOut.kind = "chart" /\ aggIn.gtype = "2d" /\ aggIn.mode = "prod_repair"
    /\ aggIn.agg # "" /\ IsNull(aggIn.side)
    /\ \E m \in Range(MonthLabels), v \in aggIn.values :
          /\ Cardinality(MeltedHolding(aggIn, m, v)) = 2
          /\ [x |-> m, y |-> StrOf(v), Count |-> 1] \in aggOut.rows

\* the table rows that survive the null-drop on X and Y and the value filters
Surviving(query) ==
    {i \in 1..Len(query.table) :
        /\ ~IsNull(query.table[i][query.x]) /\ ~IsNull(query.table[i][query.y])
        /\ query.xf = {}
              \/ (IF IsDateColumn(query.x) THEN DateGroup(query.table[i][query.x])
                   ELSE StrOf(query.table[i][query.x])) \in StrsOf(query.xf)
        /\ query.yf = {} \/ StrOf(query.table[i][query.y]) \in StrsOf(query.yf)}

RECURSIVE SumOfGrouped(_)
SumOfGrouped(rs) ==
    IF rs = {} THEN 0
    ELSE LET r == CHOOSE q \in rs : TRUE
         IN  r.Count + SumOfGrouped(rs \ {r})

\* C25: 2D normal stacked mode with no top-N: the Counts of the grouped
\* (X, Y) result add up to the number of rows that survive the null-drop and
\* the X/Y value filters, for a categorical and for a date X axis; no
\* surviving row is lost to its month bucket.
C25_StackedRowConservation ==
    (aggOut.kind = "chart" /\ aggIn.gtype = "2d" /\ aggIn.mode = "normal"
        /\ aggIn.style = "bar_stacked" /\ aggIn.top = 0) =>
        SumOfGrouped(aggOut.rows) = Cardinality(Surviving(aggIn))

\* C14: in every aggregation branch a chart is never built over zero rows:
\* when the frame handed to the plot function is empty the outcome is the
\* informational 'no data' alert.
C14_NoChartOverZeroRows ==
    aggOut.kind = "chart" => aggOut.n > 0

\* a required field of the requested kind is missing or empty
MissingField(query) ==
    \/ query.gtype = "1d" /\ query.x = ""
    \/ query.gtype = "2d" /\ query.mode = "normal"
          /\ (query.x = "" \/ query.y = "")
    \/ query.gtype = "2d" /\ query.mode = "prod_repair"
          /\ (query.date = "" \/ query.cols = {} \/ query.values = {})
    \/ query.gtype = "3d" /\ (query.x = "" \/ query.y = "" \/ query.z = "")

\* 1D, 2D normal, 2D comparison, 3D
SupportedShape(query) ==
    \/ query.gtype \in {"1d", "3d"}
    \/ query.gtype = "2d" /\ query.mode \in {"normal", "prod_repair"}

-----------------------------------------------------------------------------
(* generate_graph and run_prediction as callbacks of a session: they read   *)
(* the cache file named by the session's 'stored-data'                      *)

\* df[column]: the column is one of the table's
HasColumn(store, key, c) == c \in DOMAIN store[key].table

\* lines 848-1029 for a 1D query on column x: PreventUpdate without a stored
\* path; pd.read_parquet (line 858) stands before the try block, so its
\* FileNotFoundError leaves the callback; a KeyError inside the try block
\* becomes the alert of line 1029
GraphCall(s, x) ==
    /\ storedData[s] # NoPath
    /\ LET key == storedData[s]
           outcome == IF ~CacheExists(cache, key) THEN "raised"
                      ELSE IF x = "" THEN "warning"
                      ELSE IF ~HasColumn(cache, key, x) THEN "danger"
                      ELSE "chart"
       IN  last' = [NoOp EXCEPT !.op = "graph", !.key = key,
                                !.existed = CacheExists(cache, key),
                                !.outcome = outcome]
    /\ UNCHANGED <<files, cache, storedData, storedFilename, tempUpload,
                   concVars, normVars, aggVars, pureVars>>

\* lines 635-688 with every selection made: the cache path is one of the
\* required selections (line 639); joblib.load is guarded (643-646); neither
\* pd.read_parquet (649) nor df[chassis_col] (652) is
PredictCall(s, chassis_col, model_ok) ==
    /\ LET key == storedData[s]
           outcome == IF key = NoPath THEN "warning"
                      ELSE IF ~model_ok THEN "danger"
                      ELSE IF ~CacheExists(cache, key) THEN "raised"
                      ELSE IF ~HasColumn(cache, key, chassis_col) THEN "raised"
                      ELSE "result"
       IN  last' = [NoOp EXCEPT !.op = "predict", !.key = key,
                                !.existed = CacheExists(cache, key),
                                !.outcome = outcome]
    /\ UNCHANGED <<files, cache, storedData, storedFilename, tempUpload,
                   concVars, normVars, aggVars, pureVars>>

\* column names a session may have chosen: one of the table, one of another
\* table
ChosenColumns == {"part", "gone"}

NextUse ==
    \/ Next
    \/ \E s \in SeqSessions, x \in ChosenColumns \cup {""} : GraphCall(s, x)
    \/ \E s \in SeqSessions, c \in ChosenColumns, ok \in BOOLEAN :
          PredictCall(s, c, ok)

SpecUse == Init /\ [][NextUse]_vars

\* C16: every invocation of generate_graph and of run_prediction returns an
\* outcome value and no exception leaves it, also when a selected column is
\* absent from the table or the cache entry named by the stored path does
\* not exist.
C16_NoExceptionEscapes ==
    last.op \in {"graph", "predict"} => last.outcome # "raised"

-----------------------------------------------------------------------------
(* Domain resolvers: create_dropdown_options and                            *)
(* update_pr_main_filter_options                                            *)

\* a whole number as a cell
Whole(n) == [t |-> "int", n |-> n]

DigitChars == <<"0", "1", "2", "3", "4", "5", "6", "7", "8", "9">>

RECURSIVE Digits(_)
Digits(n) ==
    IF n < 10 THEN <<DigitChars[n + 1]>>
    ELSE Append(Digits(n \div 10), DigitChars[(n % 10) + 1])

\* str(val) as a sequence of characters
Str(c) == IF c.t = "int" THEN Digits(c.n) ELSE c.v

\* code point order of the characters of the model
CharRank(ch) ==
    CASE ch = " " -> 0
      [] ch = "0" -> 1 [] ch = "1" -> 2 [] ch = "2" -> 3 [] ch = "3" -> 4
      [] ch = "4" -> 5 [] ch = "5" -> 6 [] ch = "6" -> 7 [] ch = "7" -> 8
      [] ch = "8" -> 9 [] ch = "9" -> 10
      [] ch = "a" -> 11 [] ch = "b" -> 12

\* s <= t for Python strings
RECURSIVE StrLeq(_, _)
StrLeq(s, t) ==
    IF s = <<>> THEN TRUE
    ELSE IF t = <<>> THEN FALSE
    ELSE IF s[1] # t[1] THEN CharRank(s[1]) < CharRank(t[1])
    ELSE StrLeq(Tail(s), Tail(t))

KeepNa(t, c) == {t[i][c] : i \in 1..Len(t)}

\* df[column].dropna().unique(), as a set
DropNaUnique(t, c) == {t[i][c] : i \in 1..Len(t)} \ {Null}

\* position of the first occurrence of v in column c (the order of unique())
FirstIndex(t, c, v) ==
    CHOOSE i \in 1..Len(t) : t[i][c] = v /\ \A j \in 1..(i - 1) : t[j][c] # v

\* columns of the table handed to the resolvers
DomColumns == {"c1", "c2"}

Option(label, value) == [label |-> label, value |-> value]

\* list.sort(key=label) over entries [label, value, pos]: the sort is
\* stable, so entries of equal label stay in the order of their positions
RECURSIVE SortStable(_)
SortStable(E) ==
    IF E = {} THEN <<>>
    ELSE LET m == CHOOSE e \in E : \A w \in E \ {e} :
                     \/ e.label # w.label /\ StrLeq(e.label, w.label)
                     \/ e.label = w.label /\ e.pos < w.pos
         IN  <<Option(m.label, m.value)>> \o SortStable(E \ {m})

\* lines 87-96
CreateDropdownOptions(t, c) ==
    IF c \notin DomColumns THEN <<>>
    ELSE SortStable({[label |-> Strip(Str(v)), value |-> v,
                      pos |-> FirstIndex(t, c, v)] : v \in DropNaUnique(t, c)})

\* the orders sorted(list(S), key=str) may give: the iteration order of a
\* set, and with it the order of values of equal key, is not fixed
RECURSIVE SortedByStr(_)
SortedByStr(S) ==
    IF S = {} THEN {<<>>}
    ELSE UNION {{<<Option(Str(m), m)>> \o r : r \in SortedByStr(S \ {m})} :
                  m \in {v \in S : \A w \in S : StrLeq(Str(v), Str(w))}}

\* lines 784-797
UpdatePrMainFilterOptions(t, cols) ==
    IF cols = {} THEN {<<>>}
    ELSE SortedByStr(UNION {DropNaUnique(t, c) : c \in cols \cap DomColumns})

\* cells of the two columns: text (already stripped by the normalizer) and
\* whole numbers
DomRows ==
    [c1 : {Null, Text(<<"a">>), Text(<<"b">>), Text(<<"a", "b">>)},
     c2 : {Text(<<"a">>), Whole(10)}]

DomRequests ==
    [asked : {TRUE}, kind : {"single"}, cols : {{"c1"}, {"c2"}, {"gone"}}]
    \cup [asked : {TRUE}, kind : {"multi"}, cols : {{"c1", "c2"}, {"c1", "gone"}}]

InitDom ==
    /\ IdleCache /\ IdleConc /\ IdleNorm /\ IdleAgg /\ IdlePred /\ IdleTrain
    /\ \E r \in DomRequests, t \in SeqsUpTo(DomRows, MaxRowsDom) :
          domIn = [asked |-> TRUE, kind |-> r.kind, cols |-> r.cols, table |-> t]
    /\ domOut = NotResolved

ResolveSingle ==
    /\ domIn.asked /\ domIn.kind = "single" /\ ~domOut.done
    /\ \E c \in domIn.cols :
          domOut' = [done |-> TRUE, options |-> CreateDropdownOptions(domIn.table, c)]
    /\ UNCHANGED <<domIn, predIn, predOut, trainIn, trainOut,
                   cacheVars, concVars, normVars, aggVars>>

ResolveMulti ==
    /\ domIn.asked /\ domIn.kind = "multi" /\ ~domOut.done
    /\ \E q \in UpdatePrMainFilterOptions(domIn.table, domIn.cols) :
          domOut' = [done |-> TRUE, options |-> q]
    /\ UNCHANGED <<domIn, predIn, predOut, trainIn, trainOut,
                   cacheVars, concVars, normVars, aggVars>>

NextDom == ResolveSingle \/ ResolveMulti

SpecDom == InitDom /\ [][NextDom]_vars

\* the non-null values that occur in the chosen columns that the table has
Occurring(req) ==
    {req.table[i][c] : i \in 1..Len(req.table), c \in req.cols \cap DomColumns}
        \ {Null}

\* C17: the domain returned by the single-column resolver and by the
\* multi-column union holds every non-null value occurring in the chosen
\* column(s) exactly once, holds no null, and is ordered by the string form
\* of the values; a column that the table does not have contributes nothing.
C17_DomainResolver ==
    domOut.done =>
        LET q == domOut.options
        IN  /\ {q[i].value : i \in 1..Len(q)} = Occurring(domIn)
            /\ Len(q) = Cardinality(Occurring(domIn))
            /\ \A i \in 1..Len(q) : q[i].value # Null
            /\ \A i, j \in 1..Len(q) :
                  i < j => StrLeq(Str(q[i].value), Str(q[j].value))

\* the column [b, a, None, a] gives [a, b]
C17_Witness ==
    /\ domOut.done /\ domIn.kind = "single" /\ domIn.cols = {"c1"}
    /\ Len(domIn.table) = 4
    /\ [i \in 1..4 |-> domIn.table[i].c1] =
          <<Text(<<"b">>), Text(<<"a">>), Null, Text(<<"a">>)>>
    /\ [i \in 1..Len(domOut.options) |-> domOut.options[i].value] =
          <<Text(<<"a">>), Text(<<"b">>)>>

-----------------------------------------------------------------------------
(* run_prediction *)

\* a timestamp cell: h half-days after the first day of the model
Stamp(h) == [t |-> "stamp", h |-> h]

\* Timestamp.date(), as a day number
DateOfStamp(h) == h \div StampsPerDay

\* pd.to_datetime(prod_date_val): midnight of the chosen day
Midnight(day) == day * StampsPerDay

\* timedelta.days: whole days, rounded down
DaysBetween(later, earlier) == (later - earlier) \div StampsPerDay

\* lines 549-553: the distinct values of the chassis column (the chassis and
\* part columns of the prediction tables hold no null)
UpdateChassisValues(t) == {t[i].chassis : i \in 1..Len(t)}

\* lines 568-573: the part values of the rows of the chosen chassis
UpdatePartValues(t, chassis_val) ==
    IF chassis_val = "" THEN {}
    ELSE {t[i].part : i \in {j \in 1..Len(t) : t[j].chassis = chassis_val}}

DatesOfPart(t, chassis_val, part_val) ==
    IF chassis_val = "" \/ part_val = "" THEN {}
    ELSE {DateOfStamp(t[i].prod.h) :
            i \in {j \in 1..Len(t) : t[j].part = part_val /\ t[j].prod # Null}}

\* lines 599-608: str(d.date()) of the parsed, non-null production dates of
\* the rows of the chosen chassis and part; an option is the day it names
UpdateProdDateValues(t, chassis_val, part_val) ==
    IF chassis_val = "" \/ part_val = "" THEN {}
    ELSE {DateOfStamp(t[i].prod.h) :
            i \in {j \in 1..Len(t) : /\ t[j].chassis = chassis_val
                                       /\ t[j].part = part_val
                                       /\ t[j].prod # Null}}

AnyChassis(t, chassis_val, part_val, day) ==
    {i \in 1..Len(t) :
        /\ t[i].part = part_val
        /\ t[i].prod # Null /\ DateOfStamp(t[i].prod.h) = day}

\* lines 651-655: the rows of the chosen chassis, part and production date
PartInstance(t, chassis_val, part_val, day) ==
    {i \in 1..Len(t) :
        /\ t[i].chassis = chassis_val
        /\ t[i].part = part_val
        /\ t[i].prod # Null /\ DateOfStamp(t[i].prod.h) = day}

RiskClassEarly(remaining_life) ==
    IF remaining_life < 0 THEN "High Risk"
    ELSE IF remaining_life < 30 THEN "Failure Expected Soon"
    ELSE "Low Risk"

\* lines 668-675
RiskClass(remaining_life) ==
    IF remaining_life < 0 THEN "High Risk"
    ELSE IF remaining_life <= 30 THEN "Failure Expected Soon"
    ELSE "Low Risk"

\* lines 641-688 with the table read; the model is a saved mapping (a dict)
\* or cannot be loaded; a selection that was not made is ""
RunPrediction(in) ==
    IF in.chassis_val = "" \/ in.part_val = "" THEN [kind |-> "warning"]
    ELSE IF ~in.model.loaded THEN [kind |-> "model_error"]
    ELSE IF PartInstance(in.table, in.chassis_val, in.part_val, in.day) = {}
    THEN [kind |-> "not_found"]
    ELSE IF in.part_val \notin DOMAIN in.model.map THEN [kind |-> "no_history"]
    ELSE LET avg_ttf == in.model.map[in.part_val]
             days_in_service == DaysBetween(in.now, Midnight(in.day))
             remaining_life == avg_ttf - days_in_service
         IN  [kind |-> "result", avg_ttf |-> avg_ttf,
              days_in_service |-> days_in_service,
              remaining_life |-> remaining_life,
              class |-> RiskClass(remaining_life)]

PredChassis == {"c1", "c2"}
PredParts == {"pA", "pB"}
PredDays == {0, 1}
PredRows ==
    [chassis : PredChassis, part : PredParts,
     prod : {Null} \cup {Stamp(h) : h \in 0..2}]

\* average times to failure a saved mapping may hold for part pA; the
\* mapping of the model never has part pB
AvgValues == {0, 30, 31}
Models ==
    {[loaded |-> FALSE, map |-> <<>>], [loaded |-> TRUE, map |-> <<>>]}
    \cup {[loaded |-> TRUE, map |-> [p \in {"pA"} |-> a]] : a \in AvgValues}

InitPred ==
    /\ IdleCache /\ IdleConc /\ IdleNorm /\ IdleAgg /\ IdleDom /\ IdleTrain
    /\ \E t \in SeqsUpTo(PredRows, MaxRowsPred), m \in Models,
          pv \in PredParts \cup {""}, d \in PredDays, n \in 0..MaxNow :
          predIn = [asked |-> TRUE, table |-> t, model |-> m,
                    chassis_val |-> "c1", part_val |-> pv, day |-> d, now |-> n]
    /\ predOut = [kind |-> "none"]

Predict ==
    /\ predIn.asked /\ predOut.kind = "none"
    /\ predOut' = RunPrediction(predIn)
    /\ UNCHANGED <<predIn, domIn, domOut, trainIn, trainOut,
                   cacheVars, concVars, normVars, aggVars>>

NextPred == Predict

SpecPred == InitPred /\ [][NextPred]_vars

\* C18: remaining = avg_ttf - days_in_service, and the class returned is
\* High Risk when remaining < 0, Failure Expected Soon when
\* 0 <= remaining <= 30 and Low Risk when remaining > 30.
C18_RiskClass ==
    predOut.kind = "result" =>
        LET r == predOut.remaining_life
        IN  /\ r = predOut.avg_ttf - predOut.days_in_service
            /\ predOut.avg_ttf = predIn.model.map[predIn.part_val]
            /\ r < 0 => predOut.class = "High Risk"
            /\ (0 <= r /\ r <= 30) => predOut.class = "Failure Expected Soon"
            /\ r > 30 => predOut.class = "Low Risk"

\* the boundary: a remaining life of exactly 30 days after one day in service
C18_Witness ==
    /\ predOut.kind = "result"
    /\ predOut.days_in_service = 1
    /\ predOut.remaining_life = 30
    /\ predOut.class = "Failure Expected Soon"

\* some row of the table has the chosen chassis, part and production day
SomeRowMatches(in) ==
    \E i \in 1..Len(in.table) :
       /\ in.table[i].chassis = in.chassis_val
       /\ in.table[i].part = in.part_val
       /\ in.table[i].prod # Null
       /\ in.table[i].prod.h \div StampsPerDay = in.day

-----------------------------------------------------------------------------
(* The prediction cascade: chassis value, part value and production date  *)
(* are taken, in this order, from the options of the three resolvers, then *)
(* the prediction is run on the same table                                 *)

InitCascade ==
    /\ IdleCache /\ IdleConc /\ IdleNorm /\ IdleAgg /\ IdleDom /\ IdleTrain
    /\ \E t \in SeqsUpTo(PredRows, MaxRowsPred), m \in Models, n \in {0, MaxNow} :
          predIn = [asked |-> FALSE, chosen |-> "none", table |-> t, model |-> m,
                    chassis_val |-> "", part_val |-> "", day |-> 0, now |-> n]
    /\ predOut = [kind |-> "none"]

\* the value of chassis-value-dropdown is one of the options of
\* update_chassis_values
ChooseChassis ==
    /\ predIn.chosen = "none"
    /\ \E c \in UpdateChassisValues(predIn.table) :
          predIn' = [predIn EXCEPT !.chosen = "chassis", !.chassis_val = c]
    /\ UNCHANGED <<predOut, domIn, domOut, trainIn, trainOut,
                   cacheVars, concVars, normVars, aggVars>>

\* the value of part-value-dropdown is one of the options of
\* update_part_values for the chosen chassis
ChoosePart ==
    /\ predIn.chosen = "chassis"
    /\ \E p \in UpdatePartValues(predIn.table, predIn.chassis_val) :
          predIn' = [predIn EXCEPT !.chosen = "part", !.part_val = p]
    /\ UNCHANGED <<predOut, domIn, domOut, trainIn, trainOut,
                   cacheVars, concVars, normVars, aggVars>>

\* the value of prod-date-value-dropdown is one of the options of
\* update_prod_date_values for the chosen chassis and part; the predict
\* button is enabled by it
ChooseDate ==
    /\ predIn.chosen = "part"
    /\ \E d \in UpdateProdDateValues(predIn.table, predIn.chassis_val,
                                      predIn.part_val) :
          predIn' = [predIn EXCEPT !.chosen = "date", !.day = d, !.asked = TRUE]
    /\ UNCHANGED <<predOut, domIn, domOut, trainIn, trainOut,
                   cacheVars, concVars, normVars, aggVars>>

NextCascade == ChooseChassis \/ ChoosePart \/ ChooseDate \/ Predict

SpecCascade == InitCascade /\ [][NextCascade]_vars

\* C26: with chassis, part and production date taken from the three cascade
\* resolvers over the same table, run_prediction never returns the 'could
\* not find the specific part instance' outcome.
C26_CascadeConsistency == predOut.kind # "not_found"

\* a prediction over a table whose other row has the chosen part and another
\* chassis, so that the filters of the resolvers matter
C26_Witness ==
    /\ predOut.kind = "result" /\ predIn.chosen = "date"
    /\ \E i \in 1..Len(predIn.table) :
          /\ predIn.table[i].chassis # predIn.chassis_val
          /\ predIn.table[i].part = predIn.part_val
          /\ predIn.table[i].prod # Null

-----------------------------------------------------------------------------
(* train_and_save_model (src/train_models.py) *)

\* line 27: rows with both dates present (errors='coerce' has turned what is
\* not a date into NaT)
Failures(rows) ==
    {i \in 1..Len(rows) : rows[i].prod # Null /\ rows[i].repair # Null}

\* line 37: (repair date - Production Date).dt.days, whole days rounded down
TimeToFailure(r) == DaysBetween(r.repair.h, r.prod.h)

KeepNegative(rows) == Failures(rows)

\* line 38: df_failures[df_failures['TimeToFailure'] >= 0]
NonNegative(rows) == {i \in Failures(rows) : TimeToFailure(rows[i]) >= 0}

\* groupby('Part Number'): the rows of one part; a missing part number is
\* no group
GroupOf(rows, kept, p) == {i \in kept : rows[i].part = p}
GroupKeys(rows, kept) == {rows[i].part : i \in kept} \ {Null}

RECURSIVE SumTtf(_, _)
SumTtf(rows, idx) ==
    IF idx = {} THEN 0
    ELSE LET i == CHOOSE j \in idx : TRUE
         IN  TimeToFailure(rows[i]) + SumTtf(rows, idx \ {i})

\* (sum / n).round(0) for sum >= 0: numpy rounds a half to the even neighbour
RoundHalfEven(sum, n) ==
    LET q == sum \div n
        r == sum % n
    IN  IF 2 * r < n THEN q
        ELSE IF 2 * r > n THEN q + 1
        ELSE IF q % 2 = 0 THEN q ELSE q + 1

\* line 42: groupby('Part Number')['TimeToFailure'].mean().round(0).to_dict()
FailureModel(rows, kept) ==
    [p \in GroupKeys(rows, kept) |->
        RoundHalfEven(SumTtf(rows, GroupOf(rows, kept, p)),
                      Cardinality(GroupOf(rows, kept, p)))]

\* lines 25-58: nothing is saved when no row has both dates or the mapping
\* is empty
TrainAndSaveModel(rows) ==
    LET failure_model == FailureModel(rows, NonNegative(rows))
    IN  IF Failures(rows) = {} \/ DOMAIN failure_model = {}
        THEN [done |-> TRUE, saved |-> FALSE, map |-> <<>>]
        ELSE [done |-> TRUE, saved |-> TRUE, map |-> failure_model]

\* part numbers of the failure history
TrainParts == {Text(<<"pA">>), Text(<<"pB">>)}

\* rows of the failure history: the dates fall on half-days
TrainRows ==
    [part : TrainParts, prod : {Null, Stamp(0), Stamp(3)},
     repair : {Null, Stamp(2), Stamp(4)}]

InitTrain ==
    /\ IdleCache /\ IdleConc /\ IdleNorm /\ IdleAgg /\ IdleDom /\ IdlePred
    /\ trainIn \in SeqsUpTo(TrainRows, MaxRowsTrain)
    /\ trainOut = NotTrained

Train ==
    /\ ~trainOut.done
    /\ trainOut' = TrainAndSaveModel(trainIn)
    /\ UNCHANGED <<trainIn, domIn, domOut, predIn, predOut,
                   cacheVars, concVars, normVars, aggVars>>

NextTrain == Train

SpecTrain == InitTrain /\ [][NextTrain]_vars

\* the rows of part p with both dates present and the repair date not
\* before the production date
ValidRows(rows, p) ==
    {i \in 1..Len(rows) :
        /\ rows[i].part = p
        /\ rows[i].prod # Null /\ rows[i].repair # Null
        /\ rows[i].repair.h >= rows[i].prod.h}

TtfOf(r) == (r.repair.h - r.prod.h) \div StampsPerDay

RECURSIVE SumOfTtf(_, _)
SumOfTtf(rows, idx) ==
    IF idx = {} THEN 0
    ELSE LET i == CHOOSE j \in idx : TRUE
         IN  TtfOf(rows[i]) + SumOfTtf(rows, idx \ {i})

HasNegativeTtf(r) ==
    r.prod # Null /\ r.repair # Null /\ r.repair.h < r.prod.h

HasNoNegativeTtf(r) == ~HasNegativeTtf(r)

\* C20: the saved mapping has a key for exactly the part numbers with at
\* least one row whose dates are both present and whose repair date is not
\* before its production date; each value is the mean of the part's
\* non-negative times to failure rounded to a nearest whole day, is >= 0 and
\* lies between the least and the greatest of them; and the mapping is the
\* one the same history without its rows of negative time to failure gives.
C20_FailureModel ==
    (trainOut.done /\ trainOut.saved) =>
        /\ DOMAIN trainOut.map = {p \in TrainParts : ValidRows(trainIn, p) # {}}
        /\ \A p \in DOMAIN trainOut.map :
              LET idx == ValidRows(trainIn, p)
                  n == Cardinality(idx)
                  sum == SumOfTtf(trainIn, idx)
                  v == trainOut.map[p]
              IN  /\ 2 * (v * n - sum) <= n /\ 2 * (sum - v * n) <= n
                  /\ v >= 0
                  /\ \E i \in idx : TtfOf(trainIn[i]) <= v
                  /\ \E i \in idx : TtfOf(trainIn[i]) >= v
        /\ trainOut.map =
              TrainAndSaveModel(SelectSeq(trainIn, HasNoNegativeTtf)).map

\* part pA failed after 1 and after 2 days (mean 1.5) and has a third row
\* whose repair date lies before its production date
C20_Witness ==
    /\ trainOut.done /\ trainOut.saved
    /\ Len(trainIn) = 3
    /\ \A i \in 1..3 : trainIn[i].part = Text(<<"pA">>)
    /\ \E i \in 1..3 : HasNegativeTtf(trainIn[i])
    /\ \E i, j \in 1..3 :
          /\ HasNoNegativeTtf(trainIn[i]) /\ trainIn[i].repair # Null
          /\ trainIn[i].prod # Null /\ TtfOf(trainIn[i]) = 1
          /\ HasNoNegativeTtf(trainIn[j]) /\ trainIn[j].repair # Null
          /\ trainIn[j].prod # Null /\ TtfOf(trainIn[j]) = 2
    /\ trainOut.map = [p \in {Text(<<"pA">>)} |-> 2]

-----------------------------------------------------------------------------
(* The stale sweep with data files whose names collide in the glob *)

\* d_1.csv and d_1.csv_v2.csv: the second name starts with the first
SweepNames == {NameY, NameZ}

InitSweep ==
    /\ files = [n \in SweepNames |-> NoFile]
    /\ cache = EmptyStore
    /\ storedData = [s \in Sessions |-> NoPath]
    /\ storedFilename = [s \in Sessions |-> NoName]
    /\ tempUpload = [s \in Sessions |-> NoTemp]
    /\ last = NoOp
    /\ IdleConc /\ IdleNorm /\ IdleAgg /\ IdlePure

NextSweep ==
    \/ \E f \in SweepNames, t \in Ticks : ModifyFile(f, "csvA", t)
    \/ \E s \in SeqSessions, f \in SweepNames, wr \in WriteOutcomes : Select(s, f, wr)
    \/ \E s \in SeqSessions : Upload(s, NameX, "csvA")
    \/ \E s \in SeqSessions, wr \in WriteOutcomes : Confirm(s, "no", 0, wr)

SpecSweep == InitSweep /\ [][NextSweep]_vars

\* C21: what the sweep of a select of file F removes are select entries of
\* F only (cache files named select_<secure name of F>_<mtime>.parquet):
\* no select entry of a data file of another name and no upload entry.
C21_SweepOnlyOwnEntries ==
    last.op = "select" =>
        \A k \in last.removed :
           /\ k[1] # "upload"
           /\ \E sec \in Secs : k = SelectCacheName(SecureFilename(last.name), sec)

====
